---- MODULE Spec2Model ----
(***************************************************************************)
(* Model of scripts/clean_data.py: the three text normalizers and the      *)
(* linear cleaning pipeline of main().                                     *)
(*                                                                         *)
(* Encoding.  A string is a sequence of one-character strings.  A cell of  *)
(* the data frame is an optional value: Missing (NaN / NaT) is the empty   *)
(* tuple and Some(v) is the one-element tuple <<v>>.  A number is an exact *)
(* decimal [m |-> mantissa, e |-> number of fractional digits] with no     *)
(* trailing fractional zero.  A date is [y, m, d].                         *)
(***************************************************************************)
EXTENDS Integers, Sequences, FiniteSets, TLC

VARIABLES
    pc,           \* position of main(): the statement that runs next
    run,          \* 1: first invocation, 2: invocation on its own output
    inputExists,  \* in_path.exists()
    outDirExists, \* the directory "cleaned" exists
    isoYMD,       \* how the date parser reads a year-first string
    raw,          \* rows of the input file, each a record of cell texts
    df,           \* the data frame: a sequence of rows, each with its index
    columns,      \* the column labels of df, in order
    dtypes,       \* dtype of the order_id, price and quantity columns
    dupCounts,    \* remaining_dup_orders: order_id -> count
    reported,     \* the rows of remaining_dup_orders that were printed
    dropped,      \* the variable dropped of main()
    outFile,      \* rows of the written file, NotWritten before to_csv
    firstOut,     \* data frame exported by the first invocation
    normIn,       \* argument of a text normalizer
    normFn,       \* which normalizer was applied to normIn
    normOut       \* its return value

vars == <<pc, run, inputExists, outDirExists, isoYMD, raw, df, columns,
          dtypes, dupCounts, reported, dropped, outFile, firstOut,
          normIn, normFn, normOut>>

pipeVars == <<pc, run, inputExists, outDirExists, isoYMD, raw, df, columns,
              dtypes, dupCounts, reported, dropped, outFile, firstOut>>

normVars == <<normIn, normFn, normOut>>

-----------------------------------------------------------------------------
(* Bounds *)

MaxLen == 4
MaxRows == 3
NumIds == 11

-----------------------------------------------------------------------------
(* Optional values *)

Missing == <<>>

Some(v) == <<v>>

isna(x) == x = Missing

Val(x) == x[1]

-----------------------------------------------------------------------------
(* Characters *)

Whitespace == {" ", "\t"}

LowerOf == [c \in {"A", "N"} |-> IF c = "A" THEN "a" ELSE "n"]

UpperOf == [c \in {"a", "n"} |-> IF c = "a" THEN "A" ELSE "N"]

IsCased(c) == c \in DOMAIN LowerOf \/ c \in DOMAIN UpperOf

ToLower(c) == IF c \in DOMAIN LowerOf THEN LowerOf[c] ELSE c

ToUpper(c) == IF c \in DOMAIN UpperOf THEN UpperOf[c] ELSE c

Alphabet == {"a", "A", "n", "N", " ", "\t", "'", "-"}

RECURSIVE StringsUpTo(_)
StringsUpTo(n) ==
    IF n = 0 THEN {<<>>}
    ELSE LET S == StringsUpTo(n - 1)
         IN  S \cup {Append(s, c) : s \in {t \in S : Len(t) = n - 1}, c \in Alphabet}

-----------------------------------------------------------------------------
(* str.strip(), re.sub(r"\s+", " ", s), str.title() *)

RECURSIVE LStrip(_)
LStrip(s) ==
    IF s = <<>> THEN <<>>
    ELSE IF Head(s) \in Whitespace THEN LStrip(Tail(s)) ELSE s

RECURSIVE RStrip(_)
RStrip(s) ==
    IF s = <<>> THEN <<>>
    ELSE IF s[Len(s)] \in Whitespace THEN RStrip(SubSeq(s, 1, Len(s) - 1)) ELSE s

Strip(s) == RStrip(LStrip(s))

RECURSIVE CollapseSpaces_keepRuns(_)
CollapseSpaces_keepRuns(s) ==
    IF s = <<>> THEN <<>>
    ELSE IF Head(s) \in Whitespace
         THEN <<" ">> \o CollapseSpaces_keepRuns(Tail(s))
         ELSE <<Head(s)>> \o CollapseSpaces_keepRuns(Tail(s))

RECURSIVE CollapseSpaces(_)
CollapseSpaces(s) ==
    IF s = <<>> THEN <<>>
    ELSE IF Head(s) \in Whitespace
         THEN <<" ">> \o CollapseSpaces(LStrip(Tail(s)))
         ELSE <<Head(s)>> \o CollapseSpaces(Tail(s))

\* str.title(): a cased character is upper-cased when the character before
\* it is not cased, lower-cased when it is.
RECURSIVE TitleFrom(_, _)
TitleFrom(s, prevCased) ==
    IF s = <<>> THEN <<>>
    ELSE LET c == Head(s)
         IN  IF IsCased(c)
             THEN <<IF prevCased THEN ToLower(c) ELSE ToUpper(c)>>
                  \o TitleFrom(Tail(s), TRUE)
             ELSE <<c>> \o TitleFrom(Tail(s), FALSE)

Title(s) == TitleFrom(s, FALSE)

standardize_city(city) ==
    IF isna(city) THEN Missing
    ELSE Some(Title(CollapseSpaces(Strip(Val(city)))))

standardize_name(name) ==
    IF isna(name) THEN Missing
    ELSE Some(Title(CollapseSpaces(Strip(Val(name)))))

standardize_product(product) ==
    IF isna(product) THEN Missing
    ELSE Some(Title(CollapseSpaces(Strip(Val(product)))))

-----------------------------------------------------------------------------
(* Numbers: unsigned decimal numerals, as pd.to_numeric reads them and as   *)
(* to_csv writes them                                                       *)

Digits == <<"0", "1", "2", "3", "4", "5", "6", "7", "8", "9">>

IsDigit(c) == \E i \in 1..10 : Digits[i] = c

DigitVal(c) == (CHOOSE i \in 1..10 : Digits[i] = c) - 1

AllDigits(s) == \A i \in 1..Len(s) : IsDigit(s[i])

RECURSIVE DigitsToInt(_)
DigitsToInt(s) ==
    IF s = <<>> THEN 0
    ELSE DigitsToInt(SubSeq(s, 1, Len(s) - 1)) * 10 + DigitVal(s[Len(s)])

RECURSIVE IntToDigits(_)
IntToDigits(n) ==
    IF n < 10 THEN <<Digits[n + 1]>>
    ELSE IntToDigits(n \div 10) \o <<Digits[(n % 10) + 1]>>

\* the last width digits of n, zero padded on the left
RECURSIVE PadDigits(_, _)
PadDigits(n, width) ==
    IF width = 0 THEN <<>>
    ELSE PadDigits(n \div 10, width - 1) \o <<Digits[(n % 10) + 1]>>

RECURSIVE Pow10(_)
Pow10(e) == IF e = 0 THEN 1 ELSE 10 * Pow10(e - 1)

RECURSIVE Normalize(_)
Normalize(x) ==
    IF x.e > 0 /\ x.m % 10 = 0
    THEN Normalize([m |-> x.m \div 10, e |-> x.e - 1])
    ELSE x

\* every position of s that holds the character c
Positions(s, c) == {i \in 1..Len(s) : s[i] = c}

\* one numeral: digits, at most one ".", at least one digit; anything else is
\* what errors="coerce" turns into NaN
ParseNumber(s) ==
    LET dots == Positions(s, ".")
        p    == IF dots = {} THEN Len(s) + 1 ELSE CHOOSE i \in dots : TRUE
        ip   == SubSeq(s, 1, p - 1)
        fp   == SubSeq(s, p + 1, Len(s))
    IN  IF Cardinality(dots) <= 1 /\ AllDigits(ip) /\ AllDigits(fp)
           /\ Len(ip) + Len(fp) >= 1
        THEN Some(Normalize([m |-> DigitsToInt(ip \o fp), e |-> Len(fp)]))
        ELSE Missing

FormatNumber_noFraction(x, dtype) == IntToDigits(x.m \div Pow10(x.e))

\* str() of an int64 or of a float64 value
FormatNumber(x, dtype) ==
    IF dtype = "int64" THEN IntToDigits(x.m)
    ELSE IntToDigits(x.m \div Pow10(x.e)) \o <<".">> \o
         (IF x.e = 0 THEN <<"0">> ELSE PadDigits(x.m % Pow10(x.e), x.e))

Mul(a, b) == Normalize([m |-> a.m * b.m, e |-> a.e + b.e])

One == [m |-> 1, e |-> 0]

\* dtype that holds a column of parsed numbers
NumericDtype(cells) ==
    IF \A i \in 1..Len(cells) : ~isna(cells[i]) /\ Val(cells[i]).e = 0
    THEN "int64" ELSE "float64"

-----------------------------------------------------------------------------
(* Dates: pd.to_datetime(..., errors="coerce", dayfirst=True) on one cell   *)

RECURSIVE Split(_, _)
Split(s, sep) ==
    LET ps == Positions(s, sep)
    IN  IF ps = {} THEN <<s>>
        ELSE LET p == CHOOSE i \in ps : \A j \in ps : i <= j
             IN  <<SubSeq(s, 1, p - 1)>> \o Split(SubSeq(s, p + 1, Len(s)), sep)

IsLeap(y) == (y % 4 = 0 /\ y % 100 /= 0) \/ y % 400 = 0

DaysIn(y, m) ==
    IF m = 2 THEN (IF IsLeap(y) THEN 29 ELSE 28)
    ELSE IF m \in {4, 6, 9, 11} THEN 30 ELSE 31

ValidDate(dt) ==
    /\ dt.y >= 1
    /\ dt.m \in 1..12
    /\ dt.d >= 1
    /\ dt.d <= DaysIn(dt.y, dt.m)

\* Three numeric fields joined by "-".  A year-last string is read day
\* first, and month first only when the second field cannot be a month.  A
\* year-first string is read as ISO 8601 by pandas' own fast path (ymd) and
\* as year-day-month by the dateutil resolver when the last field can be a
\* month; which of the two the installed parser takes is the flag ymd.
ParseDate(s, ymd) ==
    LET fs == Split(s, "-")
    IN  IF Len(fs) = 3 /\ \A i \in 1..3 : fs[i] /= <<>> /\ AllDigits(fs[i])
        THEN LET a  == DigitsToInt(fs[1])
                 b  == DigitsToInt(fs[2])
                 c  == DigitsToInt(fs[3])
                 dt == IF Len(fs[1]) = 4
                       THEN IF ~ymd /\ c <= 12
                            THEN [y |-> a, m |-> c, d |-> b]
                            ELSE [y |-> a, m |-> b, d |-> c]
                       ELSE IF b <= 12
                            THEN [y |-> c, m |-> b, d |-> a]
                            ELSE [y |-> c, m |-> a, d |-> b]
             IN  IF ValidDate(dt) THEN Some(dt) ELSE Missing
        ELSE Missing

\* str() of a datetime64 value at midnight, as to_csv writes it
FormatDate(dt) ==
    PadDigits(dt.y, 4) \o <<"-">> \o PadDigits(dt.m, 2) \o <<"-">> \o PadDigits(dt.d, 2)

-----------------------------------------------------------------------------
(* Data frame operations *)

InputCols == <<"order_id", "customer_name", "city", "product",
               "price", "quantity", "order_date">>

ordered_cols == <<"order_id", "customer_name", "city", "product", "price",
                  "quantity", "order_date", "revenue", "quantity_was_missing">>

\* the strings pd.read_csv reads as NaN (its default na_values)
NaValues == { <<>>,
              <<"N", "A">>, <<"N", "a", "N">>, <<"n", "a", "n">>,
              <<"N", "/", "A">>, <<"n", "/", "a">>,
              <<"-", "N", "a", "N">>, <<"-", "n", "a", "n">>,
              <<"#", "N", "A">>, <<"#", "N", "/", "A">>,
              <<"<", "N", "A", ">">>,
              <<"N", "U", "L", "L">>, <<"n", "u", "l", "l">>,
              <<"N", "o", "n", "e">> }

Cell(text) == IF text \in NaValues THEN Missing ELSE Some(text)

\* the column is numeric when every cell that is not NaN is a numeral
IdsNumeric(rows) ==
    \A i \in 1..Len(rows) :
        isna(Cell(rows[i].order_id)) \/ ~isna(ParseNumber(rows[i].order_id))

IdCell(rows, i) ==
    IF isna(Cell(rows[i].order_id)) THEN Missing
    ELSE IF IdsNumeric(rows) THEN ParseNumber(rows[i].order_id)
    ELSE Some(rows[i].order_id)

read_csv(rows) ==
    [i \in 1..Len(rows) |->
        [idx           |-> i - 1,
         order_id      |-> IdCell(rows, i),
         customer_name |-> Cell(rows[i].customer_name),
         city          |-> Cell(rows[i].city),
         product       |-> Cell(rows[i].product),
         price         |-> Cell(rows[i].price),
         quantity      |-> Cell(rows[i].quantity),
         order_date    |-> Cell(rows[i].order_date)]]

IdDtype(rows) ==
    IF ~IdsNumeric(rows) THEN "object"
    ELSE NumericDtype([i \in 1..Len(rows) |-> IdCell(rows, i)])

Column(d, col) == [i \in 1..Len(d) |-> d[i][col]]

to_numeric(cell) == IF isna(cell) THEN Missing ELSE ParseNumber(Val(cell))

to_datetime(cell, ymd) == IF isna(cell) THEN Missing ELSE ParseDate(Val(cell), ymd)

fillna(cell, v) == IF isna(cell) THEN Some(v) ELSE cell

\* the rows of d at the positions K, in the order of d
RECURSIVE RowsFrom(_, _, _)
RowsFrom(d, K, i) ==
    IF i > Len(d) THEN <<>>
    ELSE (IF i \in K THEN <<d[i]>> ELSE <<>>) \o RowsFrom(d, K, i + 1)

Rows(d, K) == RowsFrom(d, K, 1)

\* a row without its index label: what duplicated() compares (NaN = NaN)
Cols(r) == [c \in (DOMAIN r) \ {"idx"} |-> r[c]]

drop_duplicates_unassigned(d) == d

drop_duplicates_keepLast(d) ==
    Rows(d, {i \in 1..Len(d) : \A j \in (i + 1)..Len(d) : Cols(d[j]) /= Cols(d[i])})

drop_duplicates(d) ==
    Rows(d, {i \in 1..Len(d) : \A j \in 1..(i - 1) : Cols(d[j]) /= Cols(d[i])})

value_counts_lessOne(cells) ==
    [k \in {Val(cells[i]) : i \in {j \in 1..Len(cells) : ~isna(cells[j])}} |->
        Cardinality({i \in 1..Len(cells) : cells[i] = Some(k)}) - 1]

\* Series.value_counts(): NaN labels are not counted
value_counts(cells) ==
    [k \in {Val(cells[i]) : i \in {j \in 1..Len(cells) : ~isna(cells[j])}} |->
        Cardinality({i \in 1..Len(cells) : cells[i] = Some(k)})]

Restrict(f, S) == [k \in S |-> f[k]]

HeadLimit == 10

Min(a, b) == IF a < b THEN a ELSE b

HeadLabels_unsorted(vc, n) ==
    {S \in SUBSET (DOMAIN vc) : Cardinality(S) = Min(n, Cardinality(DOMAIN vc))}

\* The labels of the first n rows of a value_counts() result: it is sorted by
\* count, largest first, and the order among equal counts is not specified.
HeadLabels(vc, n) ==
    {S \in SUBSET (DOMAIN vc) :
        /\ Cardinality(S) = Min(n, Cardinality(DOMAIN vc))
        /\ \A s \in S, t \in (DOMAIN vc) \ S : vc[s] >= vc[t]}

dropna_none(d, subset) == d

dropna_priceOnly(d, subset) == Rows(d, {i \in 1..Len(d) : ~isna(d[i].price)})

dropna(d, subset) ==
    Rows(d, {i \in 1..Len(d) : \A c \in subset : ~isna(d[i][c])})

Revenue(r) ==
    IF isna(r.price) \/ isna(r.quantity) THEN Missing
    ELSE Some(Mul(Val(r.price), Val(r.quantity)))

BoolText(b) == IF b THEN <<"T", "r", "u", "e">> ELSE <<"F", "a", "l", "s", "e">>

\* one cell of the written file; NaN and NaT are written as the empty string
FormatCell(col, v, dt) ==
    IF col = "quantity_was_missing" THEN BoolText(v)
    ELSE IF isna(v) THEN <<>>
    ELSE IF col \in {"customer_name", "city", "product"} THEN Val(v)
    ELSE IF col = "order_date" THEN FormatDate(Val(v))
    ELSE IF col = "order_id"
         THEN (IF dt.order_id = "object" THEN Val(v)
               ELSE FormatNumber(Val(v), dt.order_id))
    ELSE IF col = "revenue"
         THEN FormatNumber(Val(v), IF dt.price = "int64" /\ dt.quantity = "int64"
                                   THEN "int64" ELSE "float64")
    ELSE FormatNumber(Val(v), dt[col])

to_csv(d, cols, dt) ==
    [written |-> TRUE,
     header  |-> cols,
     rows    |-> [i \in 1..Len(d) |->
                    [j \in 1..Len(cols) |-> FormatCell(cols[j], d[i][cols[j]], dt)]]]

NotWritten == [written |-> FALSE, header |-> <<>>, rows |-> <<>>]

\* the written file read back as an input file with the seven input columns
AsInput(file) ==
    [i \in 1..Len(file.rows) |->
        [c \in {InputCols[j] : j \in 1..Len(InputCols)} |->
            file.rows[i][CHOOSE j \in 1..Len(file.header) : file.header[j] = c]]]

-----------------------------------------------------------------------------
(* Input files *)

BaseRow ==
    [order_id      |-> <<"1">>,
     customer_name |-> <<"a", "n">>,
     city          |-> <<"N", "A", "N", "A">>,
     product       |-> <<"a", "'", "n">>,
     price         |-> <<"9", ".", "9", "9">>,
     quantity      |-> <<"2">>,
     order_date    |-> <<"0", "3", "-", "0", "6", "-", "2", "0", "2", "3">>]

\* one cell of BaseRow replaced: <<column, text>>
Deviations ==
    { <<"order_id", <<"2">>>>,
      <<"city", <<>>>>,
      <<"city", <<" ", "n", "a", "n", "a", " ">>>>,
      <<"city", <<" ">>>>,
      <<"product", <<"n">>>>,
      <<"price", <<"x">>>>,
      <<"price", <<"5", ".", "0", "0">>>>,
      <<"quantity", <<>>>>,
      <<"quantity", <<"1">>>>,
      <<"quantity", <<"x">>>>,
      <<"order_date", <<"2", "0", "2", "3", "-", "0", "6", "-", "0", "3">>>>,
      <<"order_date", <<"1", "4", "-", "0", "6", "-", "2", "0", "2", "3">>>>,
      <<"order_date", <<"x">>>> }

RawRows == {BaseRow} \cup {[BaseRow EXCEPT ![dv[1]] = dv[2]] : dv \in Deviations}

Inputs == UNION {[1..n -> RawRows] : n \in 0..MaxRows}

\* the rows of order ids i..NumIds: every id has one row, the ids up to k a
\* second row with another product, the id t a third one
RECURSIVE IdRows(_, _, _)
IdRows(i, k, t) ==
    IF i > NumIds THEN <<>>
    ELSE LET r == [BaseRow EXCEPT !.order_id = IntToDigits(i)]
         IN  <<r>>
             \o (IF i <= k THEN <<[r EXCEPT !.product = <<"n">>]>> ELSE <<>>)
             \o (IF i = t THEN <<[r EXCEPT !.product = <<"a">>]>> ELSE <<>>)
             \o IdRows(i + 1, k, t)

ManyIdInputs == {IdRows(1, k, t) : k \in 0..NumIds, t \in 0..NumIds}

-----------------------------------------------------------------------------
(* main() *)

Idle ==
    /\ pc = "idle"
    /\ run = 0
    /\ inputExists = FALSE
    /\ outDirExists = FALSE
    /\ isoYMD = TRUE
    /\ raw = <<>>
    /\ df = <<>>
    /\ columns = <<>>
    /\ dtypes = [order_id |-> "object", price |-> "object", quantity |-> "object"]
    /\ dupCounts = <<>>
    /\ reported = <<>>
    /\ dropped = 0
    /\ outFile = NotWritten
    /\ firstOut = <<>>

NormIdle ==
    /\ normIn = Missing
    /\ normFn = "none"
    /\ normOut = Missing

Init ==
    /\ pc = "mkdir"
    /\ run = 1
    /\ inputExists \in BOOLEAN
    /\ outDirExists \in BOOLEAN
    /\ isoYMD \in BOOLEAN
    /\ raw \in (IF inputExists THEN Inputs \cup ManyIdInputs ELSE {<<>>})
    /\ df = <<>>
    /\ columns = <<>>
    /\ dtypes = [order_id |-> "object", price |-> "object", quantity |-> "object"]
    /\ dupCounts = <<>>
    /\ reported = <<>>
    /\ dropped = 0
    /\ outFile = NotWritten
    /\ firstOut = <<>>
    /\ NormIdle

\* out_dir.mkdir(parents=True, exist_ok=True)
Mkdir ==
    /\ pc = "mkdir"
    /\ outDirExists' = TRUE
    /\ pc' = "exists_check"
    /\ UNCHANGED <<run, inputExists, isoYMD, raw, df, columns, dtypes,
                   dupCounts, reported, dropped, outFile, firstOut>>
    /\ UNCHANGED normVars

input_missing_unchecked(exists) == FALSE

input_missing(exists) == ~exists

\* if not in_path.exists(): raise FileNotFoundError
ExistsCheck ==
    /\ pc = "exists_check"
    /\ pc' = IF input_missing(inputExists) THEN "raised" ELSE "read_csv"
    /\ UNCHANGED <<run, inputExists, outDirExists, isoYMD, raw, df, columns,
                   dtypes, dupCounts, reported, dropped, outFile, firstOut>>
    /\ UNCHANGED normVars

\* df = pd.read_csv(in_path)
ReadCsv ==
    /\ pc = "read_csv"
    /\ df' = read_csv(raw)
    /\ columns' = InputCols
    /\ dtypes' = [dtypes EXCEPT !.order_id = IdDtype(raw)]
    /\ pc' = "customer_name"
    /\ UNCHANGED <<run, inputExists, outDirExists, isoYMD, raw,
                   dupCounts, reported, dropped, outFile, firstOut>>
    /\ UNCHANGED normVars

\* a statement that replaces df and moves on
Step(from, to, newDf) ==
    /\ pc = from
    /\ df' = newDf
    /\ pc' = to
    /\ UNCHANGED <<run, inputExists, outDirExists, isoYMD, raw,
                   dupCounts, reported, dropped, outFile, firstOut>>
    /\ UNCHANGED normVars

StandardizeName ==
    /\ Step("customer_name", "city", [i \in 1..Len(df) |->
                [df[i] EXCEPT !.customer_name = standardize_name(@)]])
    /\ UNCHANGED <<columns, dtypes>>

StandardizeCity ==
    /\ Step("city", "product", [i \in 1..Len(df) |-> [df[i] EXCEPT !.city = standardize_city(@)]])
    /\ UNCHANGED <<columns, dtypes>>

StandardizeProduct ==
    /\ Step("product", "price", [i \in 1..Len(df) |->
                [df[i] EXCEPT !.product = standardize_product(@)]])
    /\ UNCHANGED <<columns, dtypes>>

CoercePrice ==
    /\ Step("price", "quantity", [i \in 1..Len(df) |-> [df[i] EXCEPT !.price = to_numeric(@)]])
    /\ dtypes' = [dtypes EXCEPT !.price = NumericDtype(Column(df', "price"))]
    /\ UNCHANGED columns

CoerceQuantity ==
    /\ Step("quantity", "order_date", [i \in 1..Len(df) |-> [df[i] EXCEPT !.quantity = to_numeric(@)]])
    /\ dtypes' = [dtypes EXCEPT !.quantity = NumericDtype(Column(df', "quantity"))]
    /\ UNCHANGED columns

ParseDates ==
    /\ Step("order_date", "flag",
            [i \in 1..Len(df) |->
                [df[i] EXCEPT !.order_date = to_datetime(@, isoYMD)]])
    /\ UNCHANGED <<columns, dtypes>>

quantity_was_missing_afterFill(r) == FALSE

quantity_was_missing(r) == isna(r.quantity)

\* df["quantity_was_missing"] = df["quantity"].isna()
FlagQuantity ==
    /\ Step("flag", "fillna",
            [i \in 1..Len(df) |->
                df[i] @@ ("quantity_was_missing" :> quantity_was_missing(df[i]))])
    /\ columns' = Append(columns, "quantity_was_missing")
    /\ UNCHANGED dtypes

\* df["quantity"] = df["quantity"].fillna(1)
FillQuantity ==
    /\ Step("fillna", "dedup", [i \in 1..Len(df) |-> [df[i] EXCEPT !.quantity = fillna(@, One)]])
    /\ UNCHANGED <<columns, dtypes>>

\* df = df.drop_duplicates()
Deduplicate ==
    /\ Step("dedup", "diagnose", drop_duplicates(df))
    /\ UNCHANGED <<columns, dtypes>>

remaining_dup_orders(d) ==
    LET dup_order_counts == value_counts(Column(d, "order_id"))
    IN  Restrict(dup_order_counts,
                 {k \in DOMAIN dup_order_counts : dup_order_counts[k] > 1})

\* the note on order_id values that appear several times: head(10) is printed
Diagnose ==
    /\ pc = "diagnose"
    /\ dupCounts' = remaining_dup_orders(df)
    /\ \E S \in HeadLabels(dupCounts', HeadLimit) :
          reported' = Restrict(dupCounts', S)
    /\ pc' = "dropna"
    /\ UNCHANGED <<run, inputExists, outDirExists, isoYMD, raw, df, columns,
                   dtypes, dropped, outFile, firstOut>>
    /\ UNCHANGED normVars

\* before = len(df); df = df.dropna(subset=[...]); dropped = before - len(df)
FilterCritical ==
    /\ pc = "dropna"
    /\ df' = dropna(df, {"price", "quantity", "order_date"})
    /\ dropped' = Len(df) - Len(df')
    /\ pc' = "revenue"
    /\ UNCHANGED <<run, inputExists, outDirExists, isoYMD, raw, columns,
                   dtypes, dupCounts, reported, outFile, firstOut>>
    /\ UNCHANGED normVars

\* df["revenue"] = df["price"] * df["quantity"]
Derive ==
    /\ Step("revenue", "reorder",
            [i \in 1..Len(df) |-> df[i] @@ ("revenue" :> Revenue(df[i]))])
    /\ columns' = Append(columns, "revenue")
    /\ UNCHANGED dtypes

\* df = df[ordered_cols]
Reorder ==
    /\ Step("reorder", "to_csv",
            [i \in 1..Len(df) |->
                [c \in {"idx"} \cup {ordered_cols[j] : j \in 1..Len(ordered_cols)} |->
                    df[i][c]]])
    /\ columns' = ordered_cols
    /\ UNCHANGED dtypes

\* df.to_csv(out_path, index=False)
Export ==
    /\ pc = "to_csv"
    /\ outFile' = to_csv(df, columns, dtypes)
    /\ firstOut' = IF run = 1 THEN df ELSE firstOut
    /\ pc' = "done"
    /\ UNCHANGED <<run, inputExists, outDirExists, isoYMD, raw, df, columns,
                   dtypes, dupCounts, reported, dropped>>
    /\ UNCHANGED normVars

\* the script is run again, with the file it wrote as its input file
Rerun ==
    /\ pc = "done"
    /\ run = 1
    /\ run' = 2
    /\ raw' = AsInput(outFile)
    /\ pc' = "mkdir"
    /\ df' = <<>>
    /\ columns' = <<>>
    /\ dtypes' = [order_id |-> "object", price |-> "object", quantity |-> "object"]
    /\ dupCounts' = <<>>
    /\ reported' = <<>>
    /\ dropped' = 0
    /\ UNCHANGED <<inputExists, outDirExists, isoYMD, outFile, firstOut>>
    /\ UNCHANGED normVars

Next ==
    \/ Mkdir
    \/ ExistsCheck
    \/ ReadCsv
    \/ StandardizeName
    \/ StandardizeCity
    \/ StandardizeProduct
    \/ CoercePrice
    \/ CoerceQuantity
    \/ ParseDates
    \/ FlagQuantity
    \/ FillQuantity
    \/ Deduplicate
    \/ Diagnose
    \/ FilterCritical
    \/ Derive
    \/ Reorder
    \/ Export
    \/ Rerun

Spec == Init /\ [][Next]_vars

-----------------------------------------------------------------------------
(* The normalizers on their own *)

TextInputs == {Missing} \cup {Some(s) : s \in StringsUpTo(MaxLen)}

InitNorm ==
    /\ Idle
    /\ normIn \in TextInputs
    /\ normFn = "none"
    /\ normOut = Missing

Apply(fn, result) ==
    /\ normFn = "none"
    /\ normFn' = fn
    /\ normOut' = result
    /\ UNCHANGED normIn
    /\ UNCHANGED pipeVars

ApplyName == Apply("standardize_name", standardize_name(normIn))

ApplyCity == Apply("standardize_city", standardize_city(normIn))

ApplyProduct == Apply("standardize_product", standardize_product(normIn))

NextNorm ==
    \/ ApplyName
    \/ ApplyCity
    \/ ApplyProduct

SpecNorm == InitNorm /\ [][NextNorm]_vars

-----------------------------------------------------------------------------
(* Properties *)

AfterFilter == pc \in {"revenue", "reorder", "to_csv", "done"}

Exported == pc \in {"to_csv", "done"}

\* number of rows of d that carry the order id k
CountId(d, k) == Cardinality({i \in 1..Len(d) : d[i].order_id = Some(k)})

IdsOf(d) == {Val(d[i].order_id) : i \in {j \in 1..Len(d) : ~isna(d[j].order_id)}}

FileCell(file, i, col) ==
    file.rows[i][CHOOSE j \in 1..Len(file.header) : file.header[j] = col]

\* C1: every record that reaches the derive and export statements, and every
\* row of the written file, has a price, a quantity and an order_date.
C1_CriticalFieldsPresent ==
    /\ AfterFilter =>
          \A i \in 1..Len(df) :
              ~isna(df[i].price) /\ ~isna(df[i].quantity) /\ ~isna(df[i].order_date)
    /\ pc = "done" =>
          \A i \in 1..Len(outFile.rows) :
              \A c \in {"price", "quantity", "order_date"} :
                  FileCell(outFile, i, c) /= <<>>

C1_Witness ==
    /\ pc = "done"
    /\ run = 1
    /\ Len(df) >= 1
    /\ \E i \in 1..Len(raw) :
          \/ isna(to_numeric(Cell(raw[i].price)))
          \/ isna(to_datetime(Cell(raw[i].order_date), isoYMD))

\* C3: in the exported frame the flag of a record is true exactly when the
\* quantity cell of its input row is NaN or is not a numeral; then its
\* quantity is 1, and otherwise its quantity is the number the cell denotes.
C3_FlagMatchesRawQuantity ==
    Exported =>
        \A i \in 1..Len(df) :
            LET parsed == to_numeric(Cell(raw[df[i].idx + 1].quantity))
            IN  /\ df[i].quantity_was_missing <=> isna(parsed)
                /\ df[i].quantity_was_missing => df[i].quantity = Some(One)
                /\ ~df[i].quantity_was_missing => df[i].quantity = parsed

C3_Witness ==
    /\ pc = "done"
    /\ \E i \in 1..Len(df) :
          df[i].quantity_was_missing /\ raw[df[i].idx + 1].quantity = <<"x">>
    /\ \E i \in 1..Len(df) : ~df[i].quantity_was_missing

DedupKeepsFirst(before, after) ==
    /\ \A n \in 1..Len(after) : \E i \in 1..Len(before) : after[n] = before[i]
    /\ \A n, m \in 1..Len(after) : n < m => after[n].idx < after[m].idx
    /\ \A i \in 1..Len(before) :
          (\E n \in 1..Len(after) : after[n] = before[i])
              <=> ~(\E j \in 1..(i - 1) : Cols(before[j]) = Cols(before[i]))

C5_DedupKeepsFirstInOrder ==
    [][(pc = "dedup" /\ pc' = "diagnose") => DedupKeepsFirst(df, df')]_vars

C5_Witness ==
    /\ pc = "diagnose"
    /\ run = 1
    /\ Len(df) >= 2
    /\ Len(df) < Len(raw)
    /\ df[1].idx = 0
    /\ df[Len(df)].idx = Len(raw) - 1

DupIds(d) == {k \in IdsOf(d) : CountId(d, k) > 1}

\* C6 as stated: right after the diagnostic, the printed note lists every
\* order id carried by more than one row, with its count, and no other id.
C6_AllGroupsReported ==
    pc = "dropna" =>
        /\ DOMAIN reported = DupIds(df)
        /\ \A k \in DOMAIN reported : reported[k] = CountId(df, k)

\* C6 as amended: the note lists at most HeadLimit order ids; each listed id is
\* carried by more than one row and is listed with its count; all of them are
\* listed when there are at most HeadLimit, and otherwise HeadLimit of them,
\* none with a smaller count than an id left out.
C6_TopGroupsReported ==
    pc = "dropna" =>
        /\ DOMAIN reported \subseteq DupIds(df)
        /\ \A k \in DOMAIN reported : reported[k] = CountId(df, k)
        /\ Cardinality(DOMAIN reported) = Min(HeadLimit, Cardinality(DupIds(df)))
        /\ \A k \in DOMAIN reported, j \in DupIds(df) \ DOMAIN reported :
              CountId(df, k) >= CountId(df, j)

C6_Witness ==
    /\ pc = "dropna"
    /\ Cardinality(DupIds(df)) > HeadLimit
    /\ \E k \in DOMAIN reported : reported[k] = 3

\* C7 as stated: while the input file is absent no statement has an effect:
\* the output directory, the data frame and the output file stay as they are.
C7_NoEffectWhenInputAbsent ==
    [][~inputExists =>
          /\ outDirExists' = outDirExists
          /\ df' = df
          /\ outFile' = outFile]_vars

\* C7 as amended: while the input file is absent the run only creates the
\* output directory and then raises: no pipeline statement runs, the data
\* frame stays empty and the output file is not written.
C7_OnlyMkdirBeforeRaise ==
    [][~inputExists =>
          /\ pc' \in {"exists_check", "raised"}
          /\ pc' = "raised" => pc = "exists_check"
          /\ df' = <<>>
          /\ outFile' = NotWritten]_vars

C7_Witness ==
    /\ pc = "raised"
    /\ ~inputExists
    /\ outDirExists
    /\ outFile = NotWritten

\* C8: the filter removes a row exactly when its price, quantity or
\* order_date is NaN; a row with a substituted quantity or with a NaN text
\* cell and with a price and a date stays; dropped is the number removed.
FilterRemovesExactly(before, after, count) ==
    LET kept(i) == \E n \in 1..Len(after) : after[n] = before[i]
    IN  /\ \A n \in 1..Len(after) : \E i \in 1..Len(before) : after[n] = before[i]
        /\ \A i \in 1..Len(before) :
              ~kept(i) <=> \/ isna(before[i].price)
                           \/ isna(before[i].quantity)
                           \/ isna(before[i].order_date)
        /\ \A i \in 1..Len(before) :
              (/\ \/ isna(to_numeric(Cell(raw[before[i].idx + 1].quantity)))
                  \/ isna(before[i].customer_name)
                  \/ isna(before[i].city)
                  \/ isna(before[i].product)
               /\ ~isna(before[i].price)
               /\ ~isna(before[i].order_date))
                  => kept(i)
        /\ count = Cardinality({i \in 1..Len(before) : ~kept(i)})

C8_FilterDropsExactlyCritical ==
    [][(pc = "dropna" /\ pc' = "revenue") => FilterRemovesExactly(df, df', dropped')]_vars

C8_Witness ==
    /\ pc = "revenue"
    /\ run = 1
    /\ dropped >= 1
    /\ \E i \in 1..Len(df) : df[i].quantity_was_missing
    /\ \E i \in 1..Len(df) : isna(df[i].city)

\* C10: once the filter has run, the count printed for an order id is at
\* least the number of records of the frame that carry the id.
C10_ReportedCountCoversOutput ==
    AfterFilter => \A k \in DOMAIN reported : reported[k] >= CountId(df, k)

C10_Witness ==
    /\ pc = "done"
    /\ \E k \in DOMAIN reported : reported[k] = 2 /\ CountId(df, k) = 1

\* C2 as stated: the frame exported by the second run, on the file the first
\* run wrote, is the frame the first run exported, flags included.  It is
\* stated for the parser that reads the written ISO dates back unchanged.
C2_SecondRunIdentical ==
    (run = 2 /\ pc = "done" /\ isoYMD) =>
        /\ Len(df) = Len(firstOut)
        /\ \A i \in 1..Len(df) : Cols(df[i]) = Cols(firstOut[i])

\* C2 as amended: the second run loses no record to a NaN price or quantity,
\* and every record it exports has the order_id, price, quantity and revenue
\* of the first-run record it was read from, with the flag false.
C2_SecondRunKeepsNumbers ==
    /\ (run = 2 /\ pc = "dropna") =>
          \A i \in 1..Len(df) : ~isna(df[i].price) /\ ~isna(df[i].quantity)
    /\ (run = 2 /\ pc = "done") =>
          \A i \in 1..Len(df) :
              LET o == firstOut[df[i].idx + 1]
              IN  /\ df[i].order_id = o.order_id
                  /\ df[i].price = o.price
                  /\ df[i].quantity = o.quantity
                  /\ df[i].revenue = o.revenue
                  /\ df[i].quantity_was_missing = FALSE

C2_Witness ==
    /\ run = 2
    /\ pc = "done"
    /\ Len(df) >= 1
    /\ \E i \in 1..Len(firstOut) : firstOut[i].quantity_was_missing
    /\ \E i \in 1..Len(df) : Val(df[i].price).e = 2

-----------------------------------------------------------------------------
(* What the normalizers are claimed to return *)

RECURSIVE SkipSpaces(_, _)
SkipSpaces(s, i) ==
    IF i <= Len(s) /\ s[i] \in Whitespace THEN SkipSpaces(s, i + 1) ELSE i

RECURSIVE SkipWord(_, _)
SkipWord(s, i) ==
    IF i <= Len(s) /\ s[i] \notin Whitespace THEN SkipWord(s, i + 1) ELSE i

\* the whitespace-delimited words of s from position i on
RECURSIVE WordsFrom(_, _)
WordsFrom(s, i) ==
    LET b == SkipSpaces(s, i)
        e == SkipWord(s, b)
    IN  IF b > Len(s) THEN <<>>
        ELSE <<SubSeq(s, b, e - 1)>> \o WordsFrom(s, e)

RECURSIVE JoinWords(_)
JoinWords(ws) ==
    IF ws = <<>> THEN <<>>
    ELSE IF Len(ws) = 1 THEN ws[1]
    ELSE ws[1] \o <<" ">> \o JoinWords(Tail(ws))

\* first letter of the word in upper case, every other letter in lower case
FirstLetterUpper(w) ==
    [i \in 1..Len(w) |->
        IF IsCased(w[i]) /\ \A j \in 1..(i - 1) : ~IsCased(w[j])
        THEN ToUpper(w[i]) ELSE ToLower(w[i])]

\* a letter in upper case when no letter stands right before it
LetterRunsUpper(w) ==
    [i \in 1..Len(w) |->
        IF IsCased(w[i]) /\ (i = 1 \/ ~IsCased(w[i - 1]))
        THEN ToUpper(w[i]) ELSE ToLower(w[i])]

ExpectedFirstLetterUpper(cell) ==
    IF isna(cell) THEN Missing
    ELSE LET ws == WordsFrom(Val(cell), 1)
         IN  Some(JoinWords([n \in 1..Len(ws) |-> FirstLetterUpper(ws[n])]))

ExpectedLetterRunsUpper(cell) ==
    IF isna(cell) THEN Missing
    ELSE LET ws == WordsFrom(Val(cell), 1)
         IN  Some(JoinWords([n \in 1..Len(ws) |-> LetterRunsUpper(ws[n])]))

\* C9 as stated: each normalizer returns the words of its argument joined by
\* single spaces, each with its first letter in upper case and every other
\* letter, also one after an apostrophe or a hyphen, in lower case.
C9_WordCapitalized ==
    normFn /= "none" => normOut = ExpectedFirstLetterUpper(normIn)

\* C9 as amended: each normalizer returns the words of its argument joined by
\* single spaces, where a letter is in upper case when it starts the word or
\* follows a character that is not a letter (an apostrophe, a hyphen), and in
\* lower case when it follows a letter; a missing value stays missing.
C9_LetterRunsCapitalized ==
    normFn /= "none" => normOut = ExpectedLetterRunsUpper(normIn)

C9_Witness ==
    /\ normFn = "standardize_name"
    /\ normIn = Some(<<" ", "a", "'", "n">>)
    /\ normOut = Some(<<"A", "'", "N">>)

====
